---- MODULE Spec2Model ----
(***************************************************************************)
(* Ladybug CDN (src/api/index.js): a file relay that classifies an         *)
(* uploaded file by its declared content type, builds a sanitized storage  *)
(* path and writes it to a GitHub repository through the contents API.     *)
(*                                                                         *)
(* JavaScript strings that the code takes apart (file names, identifiers)  *)
(* are sequences of one-character strings; strings that are only compared  *)
(* or concatenated (content types, folders, URLs) are TLA+ strings.        *)
(***************************************************************************)
EXTENDS Integers, Sequences, FiniteSets, TLC

VARIABLES
    config,     \* name of the configuration module require('../config') resolved to
    ctIn,       \* classifier: the content type handed to getFolderForContentType
    ctOut,      \* classifier: the folder it returned (NotRun before the call)
    sanId,      \* sanitizer: the identifier (fileId)
    sanName,    \* sanitizer: file.originalname
    sanOut,     \* sanitizer: the fileName built from them (NotRunSeq before)
    idArgs,     \* identifier generator: the arguments makeId is called with
    idOut,      \* identifier generator: the string it returned (NotRunSeq before)
    storeMode,  \* what the content store does with a create on an occupied path
    store,      \* the repository: path -> object (content, sha, size)
    req,        \* the requests in flight: slot -> handler state
    uploaded    \* history: the custom-id uploads answered with success whose
                \* object has not been deleted since

pureVars == <<ctIn, ctOut, sanId, sanName, sanOut, idArgs, idOut>>
sysVars == <<storeMode, store, req, uploaded>>
vars == <<config, ctIn, ctOut, sanId, sanName, sanOut, idArgs, idOut, storeMode, store, req,
          uploaded>>

-----------------------------------------------------------------------------
(* Bounds                                                                  *)

\* longest identifier + original name (in characters) the sanitizer is run on
MaxLen == 3
\* store calls of one request that fail with a 500 or without any response
MaxFaults == 1
\* files in one batch request
MaxBatch == 2
\* files in one batch request when only the batch handler is run
MaxBatchAlone == 3
\* largest length hint makeId is called with
MaxHint == 4
\* objects in the repository, largest limit and largest page when only the
\* list handler is run
MaxStored == 5
MaxLimit == 3
MaxPage == 3

-----------------------------------------------------------------------------
(* JavaScript values                                                       *)

\* JS null / undefined where a string is expected (no content type is spelt so)
null == "(null)"
undefined == <<"(undefined)">>
NotRun == "(not run)"
NotRunSeq == <<"(not run)">>

Range(s) == {s[i] : i \in 1..Len(s)}

RECURSIVE Join(_)
\* the JS string a character sequence stands for
Join(s) == IF s = <<>> THEN "" ELSE Head(s) \o Join(Tail(s))

Letters ==
    {"a","b","c","d","e","f","g","h","i","j","k","l","m","n","o","p","q","r","s","t",
     "u","v","w","x","y","z","A","B","C","D","E","F","G","H","I","J","K","L","M","N",
     "O","P","Q","R","S","T","U","V","W","X","Y","Z"}
Digits == {"0","1","2","3","4","5","6","7","8","9"}
\* characters the class \s of a JS regular expression matches (those modelled)
Whitespace == {" ", "\t", "\n", "\r", "\f"}

\* String.prototype.toLowerCase on the content types of the model: every
\* content type written with an upper-case letter is listed with its lower-case
\* form; all others are lower-case already and are returned as they are.
UpperCased ==
    ("IMAGE/PNG" :> "image/png") @@ ("Image/Png" :> "image/png") @@
    ("Text/Plain" :> "text/plain") @@ ("APPLICATION/ZIP" :> "application/zip") @@
    ("Video/MP4" :> "video/mp4") @@ ("Application/Unknown-Type" :> "application/unknown-type")
toLowerCase(s) == IF s \in DOMAIN UpperCased THEN UpperCased[s] ELSE s

-----------------------------------------------------------------------------
(* Configuration: src/config.js and src/unnamed/part_003                   *)

\* The two configuration modules of the repository, by the keys the code
\* reads.  A list-valued key is written as the list its string literal
\* denotes; src/config.js defines none of the *Mimetypes keys.
ConfigJs ==
    [ repoBranch |-> "main", githubRepo |-> "ghb-cdn", commitMessage |-> "Gifted",
      githubUser |-> "mauricegift", githubApiUrl |-> "https://api.github.com",
      cdnApiUrl |-> "https://cdn.jsdelivr.net/gh" ]

ConfigPart003 ==
    [ repoBranch |-> "main", githubRepo |-> "ghbcdn", commitMessage |-> "Github Cdn:Upload",
      githubUser |-> "mauricegift", githubApiUrl |-> "https://api.github.com",
      cdnApiUrl |-> "https://cdn.jsdelivr.net/gh",
      imageMimetypes |->
        << "image/jpeg", "image/jpg", "image/png", "image/gif", "image/webp", "image/svg+xml",
           "image/avif", "image/heif", "image/heic", "image/x-icon", "image/tiff" >>,
      audioMimetypes |->
        << "audio/mp3", "audio/mp4", "audio/mpeg", "audio/wav", "audio/ogg", "audio/webm",
           "audio/x-midi", "audio/midi", "audio/x-ms-wma", "audio/x-m4a", "audio/flac",
           "audio/aac", "audio/webm", "audio/wave" >>,
      videoMimetypes |->
        << "video/mp4", "video/webm", "video/quicktime", "video/x-msvideo", "video/avi",
           "video/mpeg", "video/x-ms-wmv", "video/3gpp2", "video/3gpp", "video/x-matroska",
           "video/ogg" >>,
      docMimetypes |->
        << "text/plain", "text/html", "text/css", "text/javascript", "text/csv", "text/xml",
           "text/markdown", "text/rtf", "application/pdf", "application/msword",
           "application/vnd.ms-excel", "application/vnd.ms-powerpoint",
           "application/vnd.openxmlformats-officedocument.wordprocessingml.document",
           "application/vnd.openxmlformats-officedocument.spreadsheetml.sheet",
           "application/vnd.openxmlformats-officedocument.presentationml.presentation",
           "application/vnd.oasis.opendocument.text",
           "application/vnd.oasis.opendocument.spreadsheet",
           "application/vnd.oasis.opendocument.presentation", "application/rtf",
           "application/x-abiword", "application/zip", "application/x-zip-compressed",
           "application/x-rar-compressed", "application/x-7z-compressed", "application/x-tar",
           "application/gzip", "application/x-bzip", "application/x-bzip2", "application/json",
           "application/ld+json", "application/xml", "application/javascript",
           "application/typescript", "application/x-httpd-php", "application/x-yaml",
           "application/graphql", "application/graphql", "application/sql", "font/ttf",
           "font/otf", "font/woff", "font/woff2", "application/x-font-ttf",
           "application/x-font-otf", "application/font-woff", "application/font-woff2",
           "application/octet-stream", "application/x-www-form-urlencoded",
           "multipart/form-data", "text/calendar", "application/vnd.android.package-archive",
           "application/x-msdownload", "application/x-apple-diskimage" >> ]

\* src/api/index.js requires '../config', which is src/config.js; part_003 is
\* the configuration module of the repository that does define the type lists.
ConfigModules == {"config.js", "part_003"}
LoadedByApiIndex == "config.js"

\* the object require('../config') returned
configObject == IF config = "config.js" THEN ConfigJs ELSE ConfigPart003

\* config.<key>: undefined when the module does not define the key
configKey(key) ==
    IF key \in DOMAIN configObject THEN configObject[key] ELSE undefined

\* parseMimeTypes: JSON.parse of the literal; undefined.replace throws a
\* TypeError inside the try block, which the catch turns into [].
parseMimeTypes(mimeString) ==
    IF mimeString = undefined THEN <<>> ELSE mimeString

ALLOWED_MIME_TYPES ==
    parseMimeTypes(configKey("imageMimetypes")) \o
    parseMimeTypes(configKey("videoMimetypes")) \o
    parseMimeTypes(configKey("audioMimetypes")) \o
    parseMimeTypes(configKey("docMimetypes"))

FOLDER_MAP ==
    [ images    |-> parseMimeTypes(configKey("imageMimetypes")),
      videos    |-> parseMimeTypes(configKey("videoMimetypes")),
      audio     |-> parseMimeTypes(configKey("audioMimetypes")),
      documents |-> parseMimeTypes(configKey("docMimetypes")),
      archives  |-> <<"application/zip", "application/x-rar-compressed",
                      "application/x-7z-compressed">>,
      code      |-> <<"text/plain", "application/json", "text/javascript", "text/css",
                      "text/html">> ]

\* Object.keys(FOLDER_MAP) / Object.entries(FOLDER_MAP): insertion order
FolderOrder == <<"images", "videos", "audio", "documents", "archives", "code">>

-----------------------------------------------------------------------------
(* MIME classifier                                                         *)

\* types.some(t => t.toLowerCase() === contentType)
someTypeEquals(types, contentType) ==
    \E k \in 1..Len(types) : toLowerCase(types[k]) = contentType

RECURSIVE scanFolders(_, _)
\* the for..of loop of getFolderForContentType from entry i on
scanFolders(i, contentType) ==
    IF i > Len(FolderOrder) THEN "documents"
    ELSE IF someTypeEquals(FOLDER_MAP[FolderOrder[i]], contentType)
         THEN FolderOrder[i]
         ELSE scanFolders(i + 1, contentType)

\* mutant: the input is compared without being lower-cased first
getFolderForContentType_CaseSensitive(contentType) ==
    IF contentType = null \/ contentType = "" THEN "files"
    ELSE scanFolders(1, contentType)

getFolderForContentType(contentType) ==
    IF contentType = null \/ contentType = "" THEN "files"
    ELSE scanFolders(1, toLowerCase(contentType))

-----------------------------------------------------------------------------
(* Path sanitizer                                                          *)

RECURSIVE replaceWhitespaceRuns(_)
\* s.replace(/\s+/g, '-'): each maximal run of whitespace becomes one hyphen
replaceWhitespaceRuns(s) ==
    IF s = <<>> THEN <<>>
    ELSE IF Head(s) \in Whitespace
         THEN IF Len(s) > 1 /\ s[2] \in Whitespace
              THEN replaceWhitespaceRuns(Tail(s))
              ELSE <<"-">> \o replaceWhitespaceRuns(Tail(s))
         ELSE <<Head(s)>> \o replaceWhitespaceRuns(Tail(s))

\* the characters the class [^a-zA-Z0-9-._] does not match
KeptChars == Letters \cup Digits \cup {"-", ".", "_"}
keptChar(c) == c \in KeptChars

\* s.replace(/[^a-zA-Z0-9-._]/g, '')
stripDisallowed(s) == SelectSeq(s, keptChar)

\* the two replace calls chained on the name, in the order of the code
sanitize(s) == stripDisallowed(replaceWhitespaceRuns(s))

\* mutant: the strip runs before the whitespace replacement
buildFileName_StripFirst(fileId, originalname) ==
    replaceWhitespaceRuns(stripDisallowed(fileId \o <<"_">> \o originalname))

\* `${fileId}_${file.originalname}`.replace(/\s+/g,'-').replace(/[^a-zA-Z0-9-._]/g,'')
buildFileName(fileId, originalname) ==
    sanitize(fileId \o <<"_">> \o originalname)

-----------------------------------------------------------------------------
(* Requests and their inputs                                               *)

\* request slots: the event loop interleaves the handlers of the requests in
\* flight at their awaits
Slots == {1, 2}

NoData == [none |-> TRUE]
\* req.file when the multipart body carried no file
NoFile == [absent |-> TRUE]

Name1 == <<"x", " ", "y">>
Name2 == <<"x", "-", "y">>

\* req.file as multer fills it in: one name under two declared types and
\* under a type no list holds, and a second name that is sanitized to the
\* same file name as the first
PngFile == [originalname |-> Name1, mimetype |-> "image/png", buffer |-> "p1", size |-> 1]
TextFile == [originalname |-> Name1, mimetype |-> "text/plain", buffer |-> "p1", size |-> 1]
FlashFile ==
    [originalname |-> Name1, mimetype |-> "application/x-shockwave-flash",
     buffer |-> "p3", size |-> 3]
HyphenFile == [originalname |-> Name2, mimetype |-> "image/png", buffer |-> "p2", size |-> 2]

Files == {PngFile, TextFile, FlashFile}

\* req.body.customId; <<>> stands for an absent or empty field (both falsy)
CustomIds == {<<>>, <<"a", "b", "c">>}

\* results of makeId() drawn in the model (3 to 6 characters of the alphabet)
GeneratedIds == {<<"a", "b", "c">>, <<"a", "b", "c", "d">>}

\* a path of the repository, `${dir}/${name}`; a folder itself has name <<>>
Path(dir, name) == [dir |-> dir, name |-> name]
filePathOf(folder, fileName) ==
    IF folder = "" THEN Join(fileName) ELSE folder \o "/" \o Join(fileName)

NoResp == [status |-> 0, body |-> NoData]
IdleReq ==
    [kind |-> "none", pc |-> "idle", input |-> NoData, loc |-> NoData, calls |-> <<>>,
     faults |-> 0, resp |-> NoResp, sent |-> 0, prior |-> {}, gone |-> {},
     forgot |-> {}]

\* a slot takes a request when its last response has been sent; of two free
\* slots the first is used (which slot serves a request makes no difference)
free(r) ==
    /\ req[r].pc \in {"idle", "done"}
    /\ \A s \in Slots : req[s].pc \in {"idle", "done"} => r <= s

\* res.status(status).json(body): a response is sent
send(q, status, body) ==
    [q EXCEPT !.resp = [status |-> status, body |-> body], !.sent = @ + 1]

\* res.status(status).json(body) ends the handler
respond(q, status, body) == [send(q, status, body) EXCEPT !.pc = "done"]

\* an axios call is issued and the handler awaits it at pc
issue(q, pc, op, path) ==
    [q EXCEPT !.pc = pc, !.calls = Append(@, [op |-> op, path |-> path, res |-> "pending"])]

\* new Date().toISOString()
Timestamp == "now"

-----------------------------------------------------------------------------
(* The content store: GitHub's contents API, as axios reports it           *)

\* an axios result: resolved (2xx), rejected with a response (error.response
\* holds the status) or rejected without one (error.response is undefined)
Resolved(status, data) ==
    [ok |-> TRUE, hasResponse |-> TRUE, status |-> status, data |-> data, message |-> ""]
HttpError(status) ==
    [ok |-> FALSE, hasResponse |-> TRUE, status |-> status, data |-> NoData,
     message |-> "Request failed with status code " \o ToString(status)]
NetworkError ==
    [ok |-> FALSE, hasResponse |-> FALSE, status |-> 0, data |-> NoData,
     message |-> "Network Error"]

\* failures of the store or of the transport that can hit any call
Faults == {HttpError(500), NetworkError}

\* what a call of request q can return: what the repository answers, or a
\* failure
outcomes(q, answer) == {answer} \cup (IF q.faults < MaxFaults THEN Faults ELSE {})

\* how a result is entered in the call log
resultClass(o) ==
    IF o.ok THEN "ok"
    ELSE IF ~o.hasResponse THEN "network"
    ELSE IF o.status = 404 THEN "404" ELSE "http"

\* the last call of the log gets its result
settle(q, o) ==
    [q EXCEPT !.calls = [@ EXCEPT ![Len(@)] = [@ EXCEPT !.res = resultClass(o)]],
              !.faults = IF o \in Faults THEN @ + 1 ELSE @]

\* file.buffer.toString('base64')
Base64(buffer) == <<"base64", buffer>>
\* the version token the store assigns: a hash of the content
Sha(content) == <<"sha", content>>

\* characters of stored names in ASCII order, the order GitHub lists a folder in
AsciiOrder ==
    <<"-", ".", "0", "1", "2", "3", "4", "5", "6", "7", "8", "9",
      "A", "B", "C", "D", "E", "F", "G", "H", "I", "J", "K", "L", "M", "N", "O", "P", "Q",
      "R", "S", "T", "U", "V", "W", "X", "Y", "Z", "_",
      "a", "b", "c", "d", "e", "f", "g", "h", "i", "j", "k", "l", "m", "n", "o", "p", "q",
      "r", "s", "t", "u", "v", "w", "x", "y", "z">>
CharCode(c) == CHOOSE i \in 1..Len(AsciiOrder) : AsciiOrder[i] = c

RECURSIVE NameLess(_, _)
NameLess(a, b) ==
    IF a = <<>> THEN b # <<>>
    ELSE IF b = <<>> THEN FALSE
    ELSE IF Head(a) = Head(b) THEN NameLess(Tail(a), Tail(b))
    ELSE CharCode(Head(a)) < CharCode(Head(b))

RECURSIVE SortNames(_)
SortNames(S) ==
    IF S = {} THEN <<>>
    ELSE LET m == CHOOSE x \in S : \A y \in S \ {x} : NameLess(x, y)
         IN <<m>> \o SortNames(S \ {m})

\* one entry of a directory listing
entryOf(folder, name) ==
    [name |-> name, size |-> store[Path(folder, name)].size,
     sha |-> store[Path(folder, name)].sha,
     download_url |-> "https://raw.githubusercontent.com/" \o configObject.githubUser
                      \o "/" \o configObject.githubRepo \o "/" \o configObject.repoBranch
                      \o "/" \o filePathOf(folder, name)]

\* GET contents/<folder>: the entries in name order; 404 when the folder
\* holds nothing (git keeps no empty directory)
contentsGetDir(folder) ==
    LET names == SortNames({p.name : p \in {q \in DOMAIN store : q.dir = folder}})
    IN IF names = <<>> THEN HttpError(404)
       ELSE Resolved(200, [k \in 1..Len(names) |-> entryOf(folder, names[k])])

\* GET contents/<path> of a file
contentsGetFile(path) ==
    IF path \in DOMAIN store
    THEN Resolved(200, [name |-> path.name, sha |-> store[path].sha,
                        size |-> store[path].size, content |-> store[path].content])
    ELSE HttpError(404)

\* PUT contents/<path> without a sha: creates the object; on an occupied path
\* the store either rejects the create (GitHub: 422) or overwrites
contentsPut(path) ==
    IF path \notin DOMAIN store THEN Resolved(201, NoData)
    ELSE IF storeMode = "overwrite" THEN Resolved(200, NoData)
    ELSE HttpError(422)

storeWith(st, path, content, size) ==
    (path :> [content |-> content, sha |-> Sha(content), size |-> size]) @@ st

storeAfterPut(path, content, size) == storeWith(store, path, content, size)

\* DELETE contents/<path> with a sha: 404 when nothing is there, 409 when the
\* sha is not the object's current one
contentsDelete(path, sha) ==
    IF path \notin DOMAIN store THEN HttpError(404)
    ELSE IF store[path].sha # sha THEN HttpError(409)
    ELSE Resolved(200, NoData)

storeAfterDelete(path) == [p \in DOMAIN store \ {path} |-> store[p]]

-----------------------------------------------------------------------------
(* Single-file upload: validateFile, the route handler, uploadToGitHub     *)

includes(list, x) == \E k \in 1..Len(list) : list[k] = x

\* mutant: the type check is left out
validateFile_NoTypeCheck(file) ==
    IF file = NoFile THEN "NO_FILE" ELSE "next"

\* validateFile: the code of the 400 it answers, or "next"
validateFile(file) ==
    IF file = NoFile THEN "NO_FILE"
    ELSE IF ~includes(ALLOWED_MIME_TYPES, file.mimetype) THEN "INVALID_FILE_TYPE"
    ELSE "next"

validateFileBody(code) ==
    IF code = "NO_FILE"
    THEN [error |-> "No file uploaded", service |-> "Ladybug CDN", code |-> "NO_FILE"]
    ELSE [error |-> "File type not allowed", service |-> "Ladybug CDN",
          code |-> "INVALID_FILE_TYPE", allowedTypes |-> ALLOWED_MIME_TYPES]

\* mutant: the branch is left out of the URL
rawUrlOfPath_NoBranch(filePath) ==
    configObject.cdnApiUrl \o "/" \o configObject.githubUser \o "/"
    \o configObject.githubRepo \o "/" \o filePath

\* `${config.cdnApiUrl}/${config.githubUser}/${config.githubRepo}@${config.repoBranch}/${filePath}`
rawUrlOfPath(filePath) ==
    configObject.cdnApiUrl \o "/" \o configObject.githubUser \o "/"
    \o configObject.githubRepo \o "@" \o configObject.repoBranch \o "/" \o filePath

\* mutant: the existing object is not recognised
existingFileFound_Never(o) == FALSE

\* the get resolved and existingFileResponse.data is truthy
existingFileFound(o) == o.ok /\ o.data # NoData

\* the inner catch rethrows: error.response && error.response.status !== 404
rethrown(o) == ~o.ok /\ o.hasResponse /\ o.status # 404

alreadyExistsBody(l) ==
    [success |-> TRUE, rawUrl |-> rawUrlOfPath(filePathOf(l.folder, l.fileName)),
     fileId |-> l.fileId, fileName |-> l.fileName, folder |-> l.folder,
     message |-> "File already exists, returning existing URL",
     service |-> "Ladybug CDN", uploadedBy |-> "Ladybug CDN Service",
     timestamp |-> Timestamp]

uploadedBody(l, file) ==
    [success |-> TRUE, rawUrl |-> rawUrlOfPath(filePathOf(l.folder, l.fileName)),
     fileId |-> l.fileId, fileName |-> l.fileName, folder |-> l.folder,
     fileSize |-> file.size, mimeType |-> file.mimetype,
     service |-> "Ladybug CDN", uploadedBy |-> "Ladybug CDN Service",
     timestamp |-> Timestamp]

\* mutant: the caller is told a fixed text instead of the error's message
uploadFailedBody_Generic(error) ==
    [success |-> FALSE, error |-> "Internal server error", service |-> "Ladybug CDN",
     code |-> "UPLOAD_FAILED"]

\* the outer catch of uploadToGitHub
uploadFailedBody(error) ==
    [success |-> FALSE, error |-> error.message, service |-> "Ladybug CDN",
     code |-> "UPLOAD_FAILED"]

\* the history entry of a custom-id upload answered with success
uploadRecord(q) ==
    [customId |-> q.input.customId, originalname |-> q.input.file.originalname,
     mimetype |-> q.input.file.mimetype, path |-> q.loc.path,
     rawUrl |-> q.resp.body.rawUrl]

noteSuccess(q) ==
    IF q.input.customId # <<>> THEN uploaded \cup {uploadRecord(q)} ELSE uploaded

\* the earlier uploads of the same custom id and name that were answered with
\* success and whose object has not been deleted since
priorOf(file, customId) ==
    {u \in uploaded : u.customId = customId /\ u.originalname = file.originalname}

\* the earlier uploads of the same custom id and name to this path that were
\* answered with success and whose object the last request of a slot deleted,
\* the path being vacant since
goneOf(file, customId, path) ==
    {u \in UNION {req[s].forgot : s \in Slots} :
        /\ u.customId = customId /\ u.originalname = file.originalname
        /\ u.path = path /\ path \notin DOMAIN store}

\* POST /api/ladybug/upload up to the first await: validateFile, the handler
\* and uploadToGitHub down to the existence check.  genId is what makeId()
\* returns if it is called.
UploadBegin(r, file, customId, genId) ==
    /\ free(r)
    /\ LET q == [IdleReq EXCEPT !.kind = "upload",
                                !.input = [file |-> file, customId |-> customId]]
           verdict == validateFile(file)
       IN IF verdict # "next"
          THEN req' = [req EXCEPT ![r] = respond(q, 400, validateFileBody(verdict))]
          ELSE LET folder == getFolderForContentType(file.mimetype)
                   fileId == IF customId # <<>> THEN customId ELSE genId
                   fileName == buildFileName(fileId, file.originalname)
                   l == [folder |-> folder, fileId |-> fileId, fileName |-> fileName,
                         path |-> Path(folder, fileName), got |-> NoData, put |-> NoData]
               IN req' = [req EXCEPT ![r] =
                            issue([q EXCEPT !.loc = l, !.prior = priorOf(file, customId),
                                            !.gone = goneOf(file, customId, l.path)],
                                  "get", "get", l.path)]
    /\ UNCHANGED <<config, pureVars, storeMode, store, uploaded>>

\* mutant: the branch for an existing file sends its response without
\* `return`, so the handler goes on to the put
UploadGetReturn_NoReturn(r) ==
    /\ req[r].kind = "upload" /\ req[r].pc = "get"
    /\ \E o \in outcomes(req[r], contentsGetFile(req[r].loc.path)) :
       LET q == [settle(req[r], o) EXCEPT !.loc.got = o]
           answered == IF existingFileFound(o)
                       THEN issue(send(q, 200, alreadyExistsBody(q.loc)), "put", "put",
                                  q.loc.path)
                       ELSE IF rethrown(o)
                            THEN respond(q, 500, uploadFailedBody(o))
                            ELSE issue(q, "put", "put", q.loc.path)
       IN /\ req' = [req EXCEPT ![r] = answered]
          /\ uploaded' = IF existingFileFound(o) THEN noteSuccess(answered) ELSE uploaded
    /\ UNCHANGED <<config, pureVars, storeMode, store>>

\* mutant: the service remembers the objects it stored and answers from
\* that record without asking the store
UploadGetReturn_Remembered(r) ==
    /\ req[r].kind = "upload" /\ req[r].pc = "get"
    /\ \E o \in outcomes(req[r], contentsGetFile(req[r].loc.path)) :
       LET q == [settle(req[r], o) EXCEPT !.loc.got = o]
           remembered == \E u \in uploaded \cup q.gone : u.path = q.loc.path
           answered == IF existingFileFound(o) \/ remembered
                       THEN respond(q, 200, alreadyExistsBody(q.loc))
                       ELSE IF rethrown(o)
                            THEN respond(q, 500, uploadFailedBody(o))
                            ELSE issue(q, "put", "put", q.loc.path)
       IN /\ req' = [req EXCEPT ![r] = answered]
          /\ uploaded' = IF existingFileFound(o) THEN noteSuccess(answered) ELSE uploaded
    /\ UNCHANGED <<config, pureVars, storeMode, store>>

\* the existence check returns: respond with the existing URL, rethrow into
\* the outer catch, or go on to the put
UploadGetReturn(r) ==
    /\ req[r].kind = "upload" /\ req[r].pc = "get"
    /\ \E o \in outcomes(req[r], contentsGetFile(req[r].loc.path)) :
       LET q == [settle(req[r], o) EXCEPT !.loc.got = o]
           answered == IF existingFileFound(o)
                       THEN respond(q, 200, alreadyExistsBody(q.loc))
                       ELSE IF rethrown(o)
                            THEN respond(q, 500, uploadFailedBody(o))
                            ELSE issue(q, "put", "put", q.loc.path)
       IN /\ req' = [req EXCEPT ![r] = answered]
          /\ uploaded' = IF existingFileFound(o) THEN noteSuccess(answered) ELSE uploaded
    /\ UNCHANGED <<config, pureVars, storeMode, store>>

\* mutant: the put carries the version token of whatever is at the path, so
\* the store takes it as an update
UploadPutReturn_WithSha(r) ==
    /\ req[r].kind = "upload" /\ req[r].pc = "put"
    /\ \E o \in outcomes(req[r], Resolved(200, NoData)) :
       LET q == [settle(req[r], o) EXCEPT !.loc.put = o]
           answered == IF o.ok
                       THEN respond(q, 200, uploadedBody(q.loc, q.input.file))
                       ELSE respond(q, 500, uploadFailedBody(o))
       IN /\ req' = [req EXCEPT ![r] = answered]
          /\ store' = IF o.ok
                      THEN storeAfterPut(q.loc.path, Base64(q.input.file.buffer),
                                         q.input.file.size)
                      ELSE store
          /\ uploaded' = IF o.ok THEN noteSuccess(answered) ELSE uploaded
    /\ UNCHANGED <<config, pureVars, storeMode>>

\* the put returns: the success response, or the outer catch
UploadPutReturn(r) ==
    /\ req[r].kind = "upload" /\ req[r].pc = "put"
    /\ \E o \in outcomes(req[r], contentsPut(req[r].loc.path)) :
       LET q == [settle(req[r], o) EXCEPT !.loc.put = o]
           answered == IF o.ok
                       THEN respond(q, 200, uploadedBody(q.loc, q.input.file))
                       ELSE respond(q, 500, uploadFailedBody(o))
       IN /\ req' = [req EXCEPT ![r] = answered]
          /\ store' = IF o.ok
                      THEN storeAfterPut(q.loc.path, Base64(q.input.file.buffer),
                                         q.input.file.size)
                      ELSE store
          /\ uploaded' = IF o.ok THEN noteSuccess(answered) ELSE uploaded
    /\ UNCHANGED <<config, pureVars, storeMode>>

-----------------------------------------------------------------------------
(* DELETE /api/ladybug/delete                                              *)

startsWith(name, prefix) ==
    Len(prefix) <= Len(name) /\ SubSeq(name, 1, Len(prefix)) = prefix

\* mutant: the last match is taken
findByPrefix_Last(files, fileId) ==
    LET hits == {k \in 1..Len(files) : startsWith(files[k].name, fileId)}
    IN IF hits = {} THEN 0 ELSE CHOOSE k \in hits : \A j \in hits : k >= j

\* files.find(file => file.name.startsWith(fileId)): the position of the first
\* match in the listing, 0 when there is none
findByPrefix(files, fileId) ==
    LET hits == {k \in 1..Len(files) : startsWith(files[k].name, fileId)}
    IN IF hits = {} THEN 0 ELSE CHOOSE k \in hits : \A j \in hits : k <= j

notFoundBody ==
    [success |-> FALSE, error |-> "File not found", service |-> "Ladybug CDN",
     code |-> "FILE_NOT_FOUND"]

\* body.filename values of the requests run one at a time
DeleteFilenames == { Path("images", <<"a", "b", "c", "_", "x", "-", "y">>) }
\* fileId values the lookup and delete requests of the model carry
SearchIds == {<<"a", "b", "c">>}

\* the handler up to its first await; NoData is an absent filename, <<>> an
\* absent fileId
DeleteBegin(r, filename, fileId) ==
    /\ free(r)
    /\ LET q == [IdleReq EXCEPT !.kind = "delete",
                                !.input = [filename |-> filename, fileId |-> fileId]]
       IN IF filename = NoData /\ fileId = <<>>
          THEN req' = [req EXCEPT ![r] =
                         respond(q, 400, [success |-> FALSE,
                                          error |-> "Filename or fileId is required",
                                          service |-> "Ladybug CDN",
                                          code |-> "MISSING_IDENTIFIER"])]
          ELSE IF fileId # <<>> /\ filename = NoData
          THEN req' = [req EXCEPT ![r] =
                         issue([q EXCEPT !.loc = [i |-> 1, targetFile |-> NoData,
                                                  sha |-> NoData]],
                               "dsearch", "get", Path(FolderOrder[1], <<>>))]
          ELSE req' = [req EXCEPT ![r] =
                         issue([q EXCEPT !.loc = [i |-> 0, targetFile |-> filename,
                                                  sha |-> NoData]],
                               "dget", "get", filename)]
    /\ UNCHANGED <<config, pureVars, storeMode, store, uploaded>>

\* one listing of the search loop returns
DeleteSearchReturn(r) ==
    /\ req[r].kind = "delete" /\ req[r].pc = "dsearch"
    /\ \E o \in outcomes(req[r], contentsGetDir(FolderOrder[req[r].loc.i])) :
       LET q == settle(req[r], o)
           i == q.loc.i
           hit == IF o.ok THEN findByPrefix(o.data, q.input.fileId) ELSE 0
           target == Path(FolderOrder[i], o.data[hit].name)
       IN /\ req' = [req EXCEPT ![r] =
                    IF hit # 0
                    THEN issue([q EXCEPT !.loc.targetFile = target], "dget", "get", target)
                    ELSE IF i < Len(FolderOrder)
                    THEN issue([q EXCEPT !.loc.i = i + 1], "dsearch", "get",
                               Path(FolderOrder[i + 1], <<>>))
                    ELSE respond(q, 404, notFoundBody)]
    /\ UNCHANGED <<config, pureVars, storeMode, store, uploaded>>

\* mutant: the catch does not tell a 404 from other failures
deleteFailed_Always500(q, o) ==
    respond(q, 500, [success |-> FALSE, error |-> o.message,
                     service |-> "Ladybug CDN", code |-> "DELETE_FAILED"])

\* the catch of the delete handler
deleteFailed(q, o) ==
    IF o.hasResponse /\ o.status = 404
    THEN respond(q, 404, notFoundBody)
    ELSE respond(q, 500, [success |-> FALSE, error |-> o.message,
                          service |-> "Ladybug CDN", code |-> "DELETE_FAILED"])

\* the get of the target returns: its sha goes into the delete call
DeleteGetReturn(r) ==
    /\ req[r].kind = "delete" /\ req[r].pc = "dget"
    /\ \E o \in outcomes(req[r], contentsGetFile(req[r].loc.targetFile)) :
       LET q == settle(req[r], o)
       IN /\ req' = [req EXCEPT ![r] =
                    IF o.ok
                    THEN issue([q EXCEPT !.loc.sha = o.data.sha], "ddel", "delete",
                               q.loc.targetFile)
                    ELSE deleteFailed(q, o)]
    /\ UNCHANGED <<config, pureVars, storeMode, store, uploaded>>

\* an upload in flight no longer has a prior upload once its object is deleted
forgetPrior(q, path) ==
    IF q.pc # "done" THEN [q EXCEPT !.prior = {u \in @ : u.path # path}] ELSE q

\* the delete call returns
DeleteCallReturn(r) ==
    /\ req[r].kind = "delete" /\ req[r].pc = "ddel"
    /\ \E o \in outcomes(req[r], contentsDelete(req[r].loc.targetFile, req[r].loc.sha)) :
       LET q == settle(req[r], o)
           path == q.loc.targetFile
           answered ==
               IF o.ok
               THEN respond(q, 200,
                            [success |-> TRUE,
                             message |-> "File " \o filePathOf(path.dir, path.name)
                                         \o " deleted successfully",
                             service |-> "Ladybug CDN",
                             deletedBy |-> "Ladybug CDN Service",
                             timestamp |-> Timestamp])
               ELSE deleteFailed(q, o)
           forgotten == IF o.ok THEN {u \in uploaded : u.path = path} ELSE {}
       IN /\ req' = [s \in Slots |->
                        IF s = r THEN [answered EXCEPT !.forgot = forgotten]
                        ELSE IF o.ok THEN forgetPrior(req[s], path) ELSE req[s]]
          /\ store' = IF o.ok THEN storeAfterDelete(path) ELSE store
          /\ uploaded' = IF o.ok THEN {u \in uploaded : u.path # path} ELSE uploaded
    /\ UNCHANGED <<config, pureVars, storeMode>>

-----------------------------------------------------------------------------
(* GET /api/ladybug/file/:fileId                                           *)

\* `${config.cdnApiUrl}/${config.githubUser}/${config.githubRepo}@${config.repoBranch}/${folder}/${name}`
rawUrlOfEntry(folder, name) ==
    configObject.cdnApiUrl \o "/" \o configObject.githubUser \o "/"
    \o configObject.githubRepo \o "@" \o configObject.repoBranch \o "/" \o folder
    \o "/" \o Join(name)

\* the fileFound object built from the matching entry of a listing
fileFound(fileId, folder, matchingFile) ==
    [fileId |-> fileId, fileName |-> matchingFile.name, folder |-> folder,
     size |-> matchingFile.size, downloadUrl |-> matchingFile.download_url,
     rawUrl |-> rawUrlOfEntry(folder, matchingFile.name),
     lastModified |-> matchingFile.sha]

\* the handler up to the listing of the first folder
LookupBegin(r, fileId) ==
    /\ free(r)
    /\ req' = [req EXCEPT ![r] =
                 issue([IdleReq EXCEPT !.kind = "lookup", !.input = [fileId |-> fileId],
                                       !.loc = [i |-> 1]],
                       "lsearch", "get", Path(FolderOrder[1], <<>>))]
    /\ UNCHANGED <<config, pureVars, storeMode, store, uploaded>>

\* one listing of the search loop returns; a listing that fails is skipped by
\* the inner catch
LookupSearchReturn(r) ==
    /\ req[r].kind = "lookup" /\ req[r].pc = "lsearch"
    /\ \E o \in outcomes(req[r], contentsGetDir(FolderOrder[req[r].loc.i])) :
       LET q == settle(req[r], o)
           i == q.loc.i
           hit == IF o.ok THEN findByPrefix(o.data, q.input.fileId) ELSE 0
       IN req' = [req EXCEPT ![r] =
                    IF hit # 0
                    THEN respond(q, 200,
                                 [success |-> TRUE, service |-> "Ladybug CDN",
                                  file |-> fileFound(q.input.fileId, FolderOrder[i],
                                                     o.data[hit]),
                                  timestamp |-> Timestamp])
                    ELSE IF i < Len(FolderOrder)
                    THEN issue([q EXCEPT !.loc.i = i + 1], "lsearch", "get",
                               Path(FolderOrder[i + 1], <<>>))
                    ELSE respond(q, 404, notFoundBody)]
    /\ UNCHANGED <<config, pureVars, storeMode, store, uploaded>>

-----------------------------------------------------------------------------
(* GET /api/ladybug/files                                                  *)

\* file.name.split('_')[0]
RECURSIVE beforeUnderscore(_)
beforeUnderscore(name) ==
    IF name = <<>> \/ Head(name) = "_" THEN <<>>
    ELSE <<Head(name)>> \o beforeUnderscore(Tail(name))

\* the object the list handler maps an entry of a listing to
listedFile(folderName, file) ==
    [fileId |-> beforeUnderscore(file.name), fileName |-> file.name,
     folder |-> folderName, size |-> file.size,
     rawUrl |-> rawUrlOfEntry(folderName, file.name),
     downloadUrl |-> file.download_url]

\* Array.prototype.slice(start, end) for 0 <= start
slice(list, start, end) ==
    SubSeq(list, start + 1, IF end < Len(list) THEN end ELSE Len(list))

\* Math.ceil(n / d) for n >= 0 and d > 0
ceilDiv(n, d) == (n + d - 1) \div d

\* mutant: the page starts one page too far
listBody_PageFromZero(allFiles, limit, page) ==
    LET startIndex == page * limit
        endIndex == startIndex + limit
    IN [success |-> TRUE, service |-> "Ladybug CDN", totalFiles |-> Len(allFiles),
        currentPage |-> page, totalPages |-> ceilDiv(Len(allFiles), limit),
        files |-> slice(allFiles, startIndex, endIndex), timestamp |-> Timestamp]

\* the pagination and the response of the list handler
listBody(allFiles, limit, page) ==
    LET startIndex == (page - 1) * limit
        endIndex == startIndex + limit
    IN [success |-> TRUE, service |-> "Ladybug CDN", totalFiles |-> Len(allFiles),
        currentPage |-> page, totalPages |-> ceilDiv(Len(allFiles), limit),
        files |-> slice(allFiles, startIndex, endIndex), timestamp |-> Timestamp]

\* req.query.folder values of the model; "" stands for an absent or empty
\* parameter (both falsy)
ListFolders == {"", "images"}
\* req.query.limit and req.query.page values of the model (decimal numerals)
ListLimits == {1, 50}
ListPages == {1, 2}

\* the handler up to the listing of the first folder
ListBegin(r, folder, limit, page) ==
    /\ free(r)
    /\ LET folders == IF folder # "" THEN <<folder>> ELSE FolderOrder
       IN req' = [req EXCEPT ![r] =
                    issue([IdleReq EXCEPT
                              !.kind = "list",
                              !.input = [folder |-> folder, limit |-> limit, page |-> page],
                              !.loc = [folders |-> folders, i |-> 1, allFiles |-> <<>>]],
                          "list", "get", Path(folders[1], <<>>))]
    /\ UNCHANGED <<config, pureVars, storeMode, store, uploaded>>

\* one listing returns: its entries are appended, or the folder is skipped by
\* the inner catch; after the last folder the page is cut and sent
ListReturn(r) ==
    /\ req[r].kind = "list" /\ req[r].pc = "list"
    /\ \E o \in outcomes(req[r], contentsGetDir(req[r].loc.folders[req[r].loc.i])) :
       LET q0 == settle(req[r], o)
           i == q0.loc.i
           folderName == q0.loc.folders[i]
           files == IF o.ok
                    THEN [k \in 1..Len(o.data) |-> listedFile(folderName, o.data[k])]
                    ELSE <<>>
           q == [q0 EXCEPT !.loc.allFiles = @ \o files]
       IN req' = [req EXCEPT ![r] =
                    IF i < Len(q.loc.folders)
                    THEN issue([q EXCEPT !.loc.i = i + 1], "list", "get",
                               Path(q.loc.folders[i + 1], <<>>))
                    ELSE respond(q, 200,
                                 listBody(q.loc.allFiles, q.input.limit, q.input.page))]
    /\ UNCHANGED <<config, pureVars, storeMode, store, uploaded>>

-----------------------------------------------------------------------------
(* POST /api/ladybug/batch-upload                                          *)

\* req.files values of the model: sequences of up to MaxBatch files
BatchItems == {PngFile, FlashFile}
BatchFiles == UNION {[1..n -> BatchItems] : n \in 0..MaxBatch}

\* req.files values when only the batch handler is run
BatchAloneItems == {HyphenFile, FlashFile}
BatchAloneFiles == UNION {[1..n -> BatchAloneItems] : n \in 0..MaxBatchAlone}

\* mutant: the rejected item is recorded under its sanitized name
notAllowedEntry_Sanitized(file) ==
    [fileName |-> sanitize(file.originalname), error |-> "File type not allowed",
     mimeType |-> file.mimetype]

\* the entry of errors for an item whose type is not allowed
notAllowedEntry(file) ==
    [fileName |-> file.originalname, error |-> "File type not allowed",
     mimeType |-> file.mimetype]

batchBody(q) ==
    [success |-> TRUE, service |-> "Ladybug CDN", totalFiles |-> Len(q.input.files),
     successfulUploads |-> Len(q.loc.results), failedUploads |-> Len(q.loc.errors),
     results |-> q.loc.results, errors |-> q.loc.errors, timestamp |-> Timestamp]

\* the loop over req.files from item i up to its next await: items of a type
\* that is not allowed go to errors, the first allowed item is put under the
\* name built from genId, and after the last item the response is sent
RECURSIVE batchLoop(_, _, _)
batchLoop(q, i, genId) ==
    IF i > Len(q.input.files) THEN respond(q, 200, batchBody(q))
    ELSE LET file == q.input.files[i]
         IN IF ~includes(ALLOWED_MIME_TYPES, file.mimetype)
            THEN batchLoop([q EXCEPT !.loc.errors = Append(@, notAllowedEntry(file))],
                           i + 1, genId)
            ELSE LET folder == getFolderForContentType(file.mimetype)
                     fileName == buildFileName(genId, file.originalname)
                 IN issue([q EXCEPT !.loc.i = i, !.loc.folder = folder,
                                    !.loc.fileId = genId, !.loc.fileName = fileName,
                                    !.loc.path = Path(folder, fileName)],
                          "bput", "put", Path(folder, fileName))

\* the entry of results for the item whose put succeeded
batchResult(l, file) ==
    [success |-> TRUE, originalName |-> file.originalname, fileName |-> l.fileName,
     fileId |-> l.fileId, rawUrl |-> rawUrlOfPath(filePathOf(l.folder, l.fileName)),
     folder |-> l.folder, fileSize |-> file.size, mimeType |-> file.mimetype]

\* the handler up to its first await; genId is what makeId() returns if it is
\* called
BatchBegin(r, files, genId) ==
    /\ free(r)
    /\ LET q == [IdleReq EXCEPT
                    !.kind = "batch", !.input = [files |-> files],
                    !.loc = [i |-> 0, results |-> <<>>, errors |-> <<>>, folder |-> "",
                             fileId |-> <<>>, fileName |-> <<>>, path |-> NoData]]
       IN req' = [req EXCEPT ![r] =
                    IF Len(files) = 0
                    THEN respond(q, 400, [success |-> FALSE, error |-> "No files uploaded",
                                          service |-> "Ladybug CDN", code |-> "NO_FILES"])
                    ELSE batchLoop(q, 1, genId)]
    /\ UNCHANGED <<config, pureVars, storeMode, store, uploaded>>

\* mutant: a failed put is issued once more
BatchPutReturn_Retry(r, genId) ==
    /\ req[r].kind = "batch" /\ req[r].pc = "bput"
    /\ \E o \in outcomes(req[r], contentsPut(req[r].loc.path)) :
       LET q0 == settle(req[r], o)
           file == q0.input.files[q0.loc.i]
           q == [q0 EXCEPT !.loc.results = Append(@, batchResult(q0.loc, file))]
       IN /\ req' = [req EXCEPT ![r] =
                       IF o.ok THEN batchLoop(q, q.loc.i + 1, genId)
                       ELSE issue(q0, "bput", "put", q0.loc.path)]
          /\ store' = IF o.ok
                      THEN storeAfterPut(q.loc.path, Base64(file.buffer), file.size)
                      ELSE store
    /\ UNCHANGED <<config, pureVars, storeMode, uploaded>>

\* the put of an item returns: the item goes to results or, through the
\* catch, to errors, and the loop goes on
BatchPutReturn(r, genId) ==
    /\ req[r].kind = "batch" /\ req[r].pc = "bput"
    /\ \E o \in outcomes(req[r], contentsPut(req[r].loc.path)) :
       LET q0 == settle(req[r], o)
           file == q0.input.files[q0.loc.i]
           q == IF o.ok
                THEN [q0 EXCEPT !.loc.results = Append(@, batchResult(q0.loc, file))]
                ELSE [q0 EXCEPT !.loc.errors =
                         Append(@, [fileName |-> file.originalname,
                                    error |-> o.message])]
       IN /\ req' = [req EXCEPT ![r] = batchLoop(q, q.loc.i + 1, genId)]
          /\ store' = IF o.ok
                      THEN storeAfterPut(q.loc.path, Base64(file.buffer), file.size)
                      ELSE store
    /\ UNCHANGED <<config, pureVars, storeMode, uploaded>>

-----------------------------------------------------------------------------
(* The classifier on its own                                               *)

RECURSIVE SeqToSet(_)
SeqToSet(s) == IF s = <<>> THEN {} ELSE {Head(s)} \cup SeqToSet(Tail(s))

\* content types the classifier is run on: every configured type, the types
\* written in upper case, a type no list holds, the empty string and null
ContentTypes ==
    SeqToSet(ConfigPart003.imageMimetypes) \cup SeqToSet(ConfigPart003.videoMimetypes)
    \cup SeqToSet(ConfigPart003.audioMimetypes) \cup SeqToSet(ConfigPart003.docMimetypes)
    \cup DOMAIN UpperCased
    \cup {"application/unknown-type", "application/x-shockwave-flash", "", null}

GeneratorIdle == idArgs = <<>> /\ idOut = NotRunSeq

PureIdle ==
    /\ ctIn = NotRun /\ ctOut = NotRun
    /\ sanId = NotRunSeq /\ sanName = NotRunSeq /\ sanOut = NotRunSeq
    /\ GeneratorIdle

SystemIdle ==
    /\ storeMode = "reject"
    /\ store = <<>>
    /\ req = [r \in Slots |-> IdleReq]
    /\ uploaded = {}

InitClassify ==
    /\ SystemIdle
    /\ config \in ConfigModules
    /\ ctIn \in ContentTypes
    /\ ctOut = NotRun
    /\ sanId = NotRunSeq /\ sanName = NotRunSeq /\ sanOut = NotRunSeq
    /\ GeneratorIdle

Classify ==
    /\ ctOut = NotRun
    /\ ctOut' = getFolderForContentType(ctIn)
    /\ UNCHANGED <<config, ctIn, sanId, sanName, sanOut, idArgs, idOut, sysVars>>

NextClassify == Classify
SpecClassify == InitClassify /\ [][NextClassify]_vars

-----------------------------------------------------------------------------
(* The sanitizer on its own                                                *)

\* characters file names and identifiers are built from: a letter, a digit,
\* the three kept symbols, two kinds of whitespace and a disallowed symbol
Chars == {"a", "7", "-", ".", "_", " ", "\t", "$"}

StringsOfLen(n) == [1..n -> Chars]
StringsUpTo(n) == UNION {StringsOfLen(k) : k \in 0..n}

InitSanitize ==
    /\ SystemIdle
    /\ config = LoadedByApiIndex
    /\ ctIn = NotRun /\ ctOut = NotRun
    /\ sanId \in StringsUpTo(MaxLen)
    /\ sanName \in StringsUpTo(MaxLen - Len(sanId))
    /\ sanOut = NotRunSeq
    /\ GeneratorIdle

Sanitize ==
    /\ sanOut = NotRunSeq
    /\ sanOut' = buildFileName(sanId, sanName)
    /\ UNCHANGED <<config, ctIn, ctOut, sanId, sanName, idArgs, idOut, sysVars>>

NextSanitize == Sanitize
SpecSanitize == InitSanitize /\ [][NextSanitize]_vars

-----------------------------------------------------------------------------
(* The identifier generator on its own                                     *)

\* const characters
characters ==
    <<"A", "B", "C", "D", "E", "F", "G", "H", "I", "J", "K", "L", "M", "N", "O", "P", "Q",
      "R", "S", "T", "U", "V", "W", "X", "Y", "Z",
      "a", "b", "c", "d", "e", "f", "g", "h", "i", "j", "k", "l", "m", "n", "o", "p", "q",
      "r", "s", "t", "u", "v", "w", "x", "y", "z",
      "0", "1", "2", "3", "4", "5", "6", "7", "8", "9">>

\* String.prototype.charAt: the character at a 0-based index, '' outside
charAt(s, index) == IF index \in 0..(Len(s) - 1) THEN <<s[index + 1]>> ELSE <<>>

\* Math.floor(Math.random() * n): Math.random() is in [0, 1)
floorRandom(n) == 0..(n - 1)

\* the values of Math.floor(Math.random() * characters.length) the generator
\* is run on: the first letter, the first lower-case letter, the last digit
RandomIndexes == {0, 26, 61} \cap floorRandom(Len(characters))

\* the parameter `length = null`: the argument, null when there is none
lengthOf(args) == IF args = <<>> THEN <<>> ELSE <<args[1]>>

\* `length || ...`: null and 0 are falsy
truthy(length) == length # <<>> /\ length[1] # 0

\* const idLength, for a value of Math.floor(Math.random() * 4)
idLengthOf(length, rnd) == IF truthy(length) THEN length[1] ELSE rnd + 3

RECURSIVE makeIdLoop(_, _, _, _)
\* the for loop, for the values of randomIndex it draws
makeIdLoop(result, i, idLength, draws) ==
    IF i < idLength
    THEN makeIdLoop(result \o charAt(characters, draws[i + 1]), i + 1, idLength, draws)
    ELSE result

\* the strings makeId(...args) can return
makeId(args) ==
    UNION {{makeIdLoop(<<>>, 0, idLengthOf(lengthOf(args), rnd), draws) :
               draws \in [1..idLengthOf(lengthOf(args), rnd) -> RandomIndexes]} :
           rnd \in floorRandom(4)}

\* the calls: makeId() and makeId(n) for a length hint n
HintArgs == {<<>>} \cup {<<n>> : n \in 0..MaxHint}

InitMakeId ==
    /\ SystemIdle
    /\ config = LoadedByApiIndex
    /\ ctIn = NotRun /\ ctOut = NotRun
    /\ sanId = NotRunSeq /\ sanName = NotRunSeq /\ sanOut = NotRunSeq
    /\ idArgs \in HintArgs
    /\ idOut = NotRunSeq

MakeId ==
    /\ idOut = NotRunSeq
    /\ idOut' \in makeId(idArgs)
    /\ UNCHANGED <<config, ctIn, ctOut, sanId, sanName, sanOut, idArgs, sysVars>>

NextMakeId == MakeId
SpecMakeId == InitMakeId /\ [][NextMakeId]_vars

\* the makeId of the legacy variants (part_000, part_002): no parameter,
\* `const length = Math.floor(Math.random() * 4) + 2`, the same loop
legacyLengthOf(rnd) == rnd + 2

legacyMakeId ==
    UNION {{makeIdLoop(<<>>, 0, legacyLengthOf(rnd), draws) :
               draws \in [1..legacyLengthOf(rnd) -> RandomIndexes]} :
           rnd \in floorRandom(4)}

InitLegacyMakeId ==
    /\ SystemIdle
    /\ config = LoadedByApiIndex
    /\ ctIn = NotRun /\ ctOut = NotRun
    /\ sanId = NotRunSeq /\ sanName = NotRunSeq /\ sanOut = NotRunSeq
    /\ GeneratorIdle

LegacyMakeId ==
    /\ idOut = NotRunSeq
    /\ idOut' \in legacyMakeId
    /\ UNCHANGED <<config, ctIn, ctOut, sanId, sanName, sanOut, idArgs, sysVars>>

NextLegacyMakeId == LegacyMakeId
SpecLegacyMakeId == InitLegacyMakeId /\ [][NextLegacyMakeId]_vars

-----------------------------------------------------------------------------
(* The service                                                             *)

\* the service after startup, on an empty repository of GitHub, which rejects
\* a create on an occupied path
Init ==
    /\ PureIdle
    /\ SystemIdle
    /\ config \in ConfigModules

\* the service with one request at a time: the next request is taken when
\* the response of the last one has been sent
Next ==
    \/ \E file \in Files \cup {NoFile}, customId \in CustomIds, genId \in GeneratedIds :
          UploadBegin(1, file, customId, genId)
    \/ UploadGetReturn(1)
    \/ UploadPutReturn(1)
    \/ \E files \in BatchFiles, genId \in GeneratedIds : BatchBegin(1, files, genId)
    \/ \E genId \in GeneratedIds : BatchPutReturn(1, genId)
    \/ \E fileId \in SearchIds : LookupBegin(1, fileId)
    \/ LookupSearchReturn(1)
    \/ \E filename \in DeleteFilenames \cup {NoData}, fileId \in SearchIds \cup {<<>>} :
          DeleteBegin(1, filename, fileId)
    \/ DeleteSearchReturn(1)
    \/ DeleteGetReturn(1)
    \/ DeleteCallReturn(1)
    \/ \E folder \in ListFolders, limit \in ListLimits, page \in ListPages :
          ListBegin(1, folder, limit, page)
    \/ ListReturn(1)

Spec == Init /\ [][Next]_vars

\* objects earlier uploads have left in the repository, in the order they
\* were written
StoredName1 == <<"a", "b", "c", "_", "x", "-", "y">>
StoredName2 == <<"a", "b", "c", "d", "_", "x", "-", "y">>
StoredPaths ==
    <<Path("images", StoredName1), Path("documents", StoredName1),
      Path("images", StoredName2), Path("videos", StoredName1),
      Path("documents", StoredName2), Path("audio", StoredName1),
      Path("videos", StoredName2)>>

RECURSIVE storeOfFirst(_)
storeOfFirst(n) ==
    IF n = 0 THEN <<>>
    ELSE storeWith(storeOfFirst(n - 1), StoredPaths[n], Base64("p1"), 1)

\* the list handler alone on a repository of up to MaxStored objects; a
\* service that admits no type has written none
InitList ==
    /\ PureIdle
    /\ config \in ConfigModules
    /\ storeMode = "reject"
    /\ \E n \in 0..MaxStored :
          /\ n > 0 => ALLOWED_MIME_TYPES # <<>>
          /\ n <= Len(StoredPaths)
          /\ store = storeOfFirst(n)
    /\ req = [r \in Slots |-> IdleReq]
    /\ uploaded = {}

NextList ==
    \/ \E folder \in ListFolders, limit \in 1..MaxLimit, page \in 1..MaxPage :
          ListBegin(1, folder, limit, page)
    \/ ListReturn(1)

SpecList == InitList /\ [][NextList]_vars

\* the batch handler alone, one request at a time
NextBatch ==
    \/ \E files \in BatchAloneFiles, genId \in GeneratedIds : BatchBegin(1, files, genId)
    \/ \E genId \in GeneratedIds : BatchPutReturn(1, genId)

SpecBatch == Init /\ [][NextBatch]_vars

\* uploads of one custom id racing in two slots: the handlers interleave at
\* their awaits
RaceFiles == {PngFile, HyphenFile}

\* the store of the race either rejects the second create or overwrites
InitUpload ==
    /\ PureIdle
    /\ config \in ConfigModules
    /\ storeMode \in {"reject", "overwrite"}
    /\ store = <<>>
    /\ uploaded = {}
    /\ req = [r \in Slots |-> IdleReq]

NextUpload ==
    \/ \E r \in Slots, file \in RaceFiles :
          UploadBegin(r, file, <<"a", "b", "c">>, <<"a", "b", "c">>)
    \/ \E r \in Slots : UploadGetReturn(r)
    \/ \E r \in Slots : UploadPutReturn(r)

SpecUpload == InitUpload /\ [][NextUpload]_vars

\* the same, every axios call returning: the promise of a call that was
\* issued settles, and the event loop then runs the continuation awaiting it
CallsReturn ==
    \A r \in Slots : WF_vars(UploadGetReturn(r)) /\ WF_vars(UploadPutReturn(r))

SpecUploadLive == InitUpload /\ [][NextUpload]_vars /\ CallsReturn

-----------------------------------------------------------------------------
(* Uploads with identifiers of every kind                                  *)

\* req.body.customId values: absent, letters, and one each with a blank, a
\* disallowed character, an underscore and a hyphen
KeyCustomIds ==
    {<<>>, <<"a", "b", "c">>, <<"a", " ", "b">>, <<"a", "$", "b">>, <<"a", "_", "b">>,
     <<"a", "-", "b">>}

InitUploadIds ==
    /\ PureIdle
    /\ SystemIdle
    /\ config = "part_003"

\* uploads of one file, one request at a time
NextUploadIds ==
    \/ \E customId \in KeyCustomIds, genId \in GeneratedIds :
          UploadBegin(1, PngFile, customId, genId)
    \/ UploadGetReturn(1)
    \/ UploadPutReturn(1)

SpecUploadIds == InitUploadIds /\ [][NextUploadIds]_vars

-----------------------------------------------------------------------------
(* Uploads, batches, lookups and lists interleaved                         *)

\* batches of the interleaving: one file, or two that get the same path
MixedBatches == {<<HyphenFile>>, <<PngFile, HyphenFile>>}

\* two requests at a time, all writing to or reading images/abc_x-y; the
\* store rejects a create on an occupied path
NextMixed ==
    \/ \E r \in Slots, file \in RaceFiles :
          UploadBegin(r, file, <<"a", "b", "c">>, <<"a", "b", "c">>)
    \/ \E r \in Slots : UploadGetReturn(r)
    \/ \E r \in Slots : UploadPutReturn(r)
    \/ \E r \in Slots, files \in MixedBatches : BatchBegin(r, files, <<"a", "b", "c">>)
    \/ \E r \in Slots : BatchPutReturn(r, <<"a", "b", "c">>)
    \/ \E r \in Slots : LookupBegin(r, <<"a", "b", "c">>)
    \/ \E r \in Slots : LookupSearchReturn(r)
    \/ \E r \in Slots : ListBegin(r, "images", 50, 1)
    \/ \E r \in Slots : ListReturn(r)

SpecMixed == InitUploadIds /\ [][NextMixed]_vars

-----------------------------------------------------------------------------
(* Deletes racing with each other and with an upload                       *)

\* the object the racing requests are about: images/abc_x-y, stored by an
\* upload of PngFile with customId 'abc'
RacePath == Path("images", StoredName1)

\* a file of the repository that no upload wrote: README.md at its root
ReadmePath == Path("", <<"R", "E", "A", "D", "M", "E", ".", "m", "d">>)

\* body.filename values of the racing delete requests
RaceFilenames == {RacePath, ReadmePath}

\* the service with both in the repository and the type lists configured
\* (without them no upload is admitted)
InitDeleteRace ==
    /\ PureIdle
    /\ config = "part_003"
    /\ storeMode = "reject"
    /\ store = storeWith(storeWith(<<>>, RacePath, Base64(PngFile.buffer), PngFile.size),
                         ReadmePath, Base64("readme"), 6)
    /\ uploaded = {}
    /\ req = [r \in Slots |-> IdleReq]

\* delete requests by filename in both slots, and uploads of another payload
\* to the same path
NextDeleteRace ==
    \/ \E r \in Slots, filename \in RaceFilenames : DeleteBegin(r, filename, <<>>)
    \/ \E r \in Slots : DeleteGetReturn(r)
    \/ \E r \in Slots : DeleteCallReturn(r)
    \/ \E r \in Slots : UploadBegin(r, HyphenFile, <<"a", "b", "c">>, <<"a", "b", "c">>)
    \/ \E r \in Slots : UploadGetReturn(r)
    \/ \E r \in Slots : UploadPutReturn(r)

SpecDeleteRace == InitDeleteRace /\ [][NextDeleteRace]_vars

-----------------------------------------------------------------------------
(* Claims about the classifier                                             *)

Min(S) == CHOOSE m \in S : \A n \in S : m <= n

\* positions in FolderOrder of the categories whose list holds a type equal to
\* t when both are lower-cased
MatchingFolders(t) ==
    {i \in 1..Len(FolderOrder) :
        \E u \in Range(FOLDER_MAP[FolderOrder[i]]) : toLowerCase(u) = toLowerCase(t)}

\* C7: getFolderForContentType(t) is 'files' for a null or empty t, otherwise
\* the first category (images, videos, audio, documents, archives, code) whose
\* list holds t compared case-insensitively, and 'documents' when none does;
\* the default 'documents' differs from the fallback 'files'.
C7_ClassifierContract ==
    ctOut # NotRun =>
        /\ (ctIn \in {null, ""} => ctOut = "files")
        /\ (ctIn \notin {null, ""} /\ MatchingFolders(ctIn) # {} =>
                ctOut = FolderOrder[Min(MatchingFolders(ctIn))])
        /\ (ctIn \notin {null, ""} /\ MatchingFolders(ctIn) = {} =>
                ctOut = "documents" /\ ctOut # "files")
        /\ FolderOrder = <<"images", "videos", "audio", "documents", "archives", "code">>

\* an upper-case type listed under images and nowhere before it is classified
C7_Witness ==
    config = "part_003" /\ ctIn = "IMAGE/PNG" /\ ctOut = "images"

\* C8: with the configuration loaded at startup, classify("image/png") is
\* "images", classify("application/unknown-type") is "documents" and
\* classify(null) is "files".
C8_StartupExamples ==
    ctOut # NotRun =>
        /\ (ctIn = "image/png" => ctOut = "images")
        /\ (ctIn = "application/unknown-type" => ctOut = "documents")
        /\ (ctIn = null => ctOut = "files")

-----------------------------------------------------------------------------
(* Claims about the sanitizer                                              *)

RECURSIVE CollapseFrom(_, _)
\* s from position i on, read character by character: a whitespace character
\* that starts a run stands for one hyphen, the rest of the run for nothing,
\* a kept character for itself and any other character for nothing
CollapseFrom(s, i) ==
    IF i > Len(s) THEN <<>>
    ELSE LET c == s[i]
             here == IF c \in Whitespace
                     THEN IF i = 1 \/ s[i - 1] \notin Whitespace THEN <<"-">> ELSE <<>>
                     ELSE IF c \in Letters \cup Digits \cup {"-", ".", "_"}
                          THEN <<c>> ELSE <<>>
         IN here \o CollapseFrom(s, i + 1)

\* C9: the file name built from any identifier and original name holds only
\* letters, digits, hyphen, dot and underscore, every whitespace run of the
\* input having become one hyphen, and sanitizing it again changes nothing.
C9_SanitizedName ==
    sanOut # NotRunSeq =>
        /\ \A i \in 1..Len(sanOut) : sanOut[i] \in Letters \cup Digits \cup {"-", ".", "_"}
        /\ sanOut = CollapseFrom(sanId \o <<"_">> \o sanName, 1)
        /\ sanitize(sanOut) = sanOut

\* a name with a two-character whitespace run and a disallowed symbol
C9_Witness ==
    sanId = <<>> /\ sanName = <<" ", "\t", "$">> /\ sanOut = <<"_", "-">>

-----------------------------------------------------------------------------
(* Claims about the single-file upload                                     *)

putsOf(q) == {k \in 1..Len(q.calls) : q.calls[k].op = "put"}
\* calls that failed with anything other than a 404
failedCallsOf(q) == {k \in 1..Len(q.calls) : q.calls[k].res \in {"http", "network"}}
\* an upload request that got as far as uploadToGitHub
InUpload(q) == q.kind = "upload" /\ q.loc # NoData
Answered(q) == q.kind = "upload" /\ q.pc = "done"

\* C1 as stated: an upload of a (customId, originalname) pair that an earlier
\* upload, answered with success and not deleted since, carried as well is
\* answered with success and the rawUrl of the earlier one, and issues no put
\* (the store answering its existence check).
C1_SamePairSameUrl ==
    \A r \in Slots :
        LET q == req[r]
        IN (Answered(q) /\ q.faults = 0 /\ q.prior # {}) =>
              /\ q.resp.status = 200
              /\ q.resp.body.success = TRUE
              /\ \A u \in q.prior : q.resp.body.rawUrl = u.rawUrl
              /\ putsOf(q) = {}

\* C1: an upload of the (customId, originalname) pair and the declared content
\* type of an earlier upload that was answered with success and not deleted
\* since is answered with success and the rawUrl of the earlier one, and
\* issues no put (the store answering its existence check).
C1_SameUploadSameUrl ==
    \A r \in Slots :
        LET q == req[r]
            same == IF Answered(q) /\ q.input.file # NoFile
                    THEN {u \in q.prior : u.mimetype = q.input.file.mimetype}
                    ELSE {}
        IN (Answered(q) /\ q.faults = 0 /\ same # {}) =>
              /\ q.resp.status = 200
              /\ q.resp.body.success = TRUE
              /\ \A u \in same : q.resp.body.rawUrl = u.rawUrl
              /\ putsOf(q) = {}

\* the second upload of a custom id, name and type has been answered from the
\* existence check
C1_Witness ==
    \E r \in Slots :
        LET q == req[r]
        IN /\ Answered(q) /\ q.faults = 0 /\ q.input.file = PngFile
           /\ \E u \in q.prior : u.mimetype = "image/png" /\ u.rawUrl = q.resp.body.rawUrl
           /\ q.resp.status = 200
           /\ q.resp.body.message = "File already exists, returning existing URL"
           /\ putsOf(q) = {}

\* C2: an upload request without a file is answered 400 NO_FILE and one whose
\* declared type is not in ALLOWED_MIME_TYPES 400 INVALID_FILE_TYPE, and
\* neither issues a call to the store.
C2_InvalidInputRejected ==
    \A r \in Slots :
        LET q == req[r]
        IN q.kind = "upload" =>
              /\ q.input.file = NoFile =>
                    /\ q.pc = "done" /\ q.resp.status = 400
                    /\ q.resp.body.code = "NO_FILE" /\ q.calls = <<>>
              /\ (q.input.file # NoFile
                  /\ ~includes(ALLOWED_MIME_TYPES, q.input.file.mimetype)) =>
                    /\ q.pc = "done" /\ q.resp.status = 400
                    /\ q.resp.body.code = "INVALID_FILE_TYPE" /\ q.calls = <<>>

\* a type outside a non-empty allow-list has been rejected
C2_Witness ==
    \E r \in Slots :
        /\ config = "part_003" /\ Answered(req[r]) /\ req[r].input.file = FlashFile
        /\ req[r].resp.status = 400 /\ req[r].resp.body.code = "INVALID_FILE_TYPE"
        /\ req[r].calls = <<>>

\* C3: when the existence check of an upload fails with anything other than a
\* 404 (another status, or no HTTP response at all), the request ends with an
\* error response and issues no put.
C3_GetFailureEndsRequest ==
    \A r \in Slots :
        LET q == req[r]
        IN (/\ InUpload(q) /\ q.loc.got # NoData /\ ~q.loc.got.ok
            /\ ~(q.loc.got.hasResponse /\ q.loc.got.status = 404)) =>
              /\ q.pc = "done"
              /\ q.resp.status >= 400
              /\ putsOf(q) = {}

\* C4: when the put of an upload fails, the request is answered 500
\* UPLOAD_FAILED with the message of the error, and it has issued exactly one
\* put.
C4_PutFailureReported ==
    \A r \in Slots :
        LET q == req[r]
        IN (InUpload(q) /\ q.loc.put # NoData /\ ~q.loc.put.ok) =>
              /\ q.pc = "done"
              /\ q.resp.status = 500
              /\ q.resp.body.code = "UPLOAD_FAILED"
              /\ q.resp.body.error = q.loc.put.message
              /\ Cardinality(putsOf(q)) = 1

\* a put that got no response has been reported
C4_Witness ==
    \E r \in Slots :
        /\ InUpload(req[r]) /\ req[r].loc.put = NetworkError
        /\ req[r].resp.status = 500 /\ req[r].resp.body.error = "Network Error"

\* C5: two uploads for one path whose existence checks both returned 404 and
\* which both issued a put are both answered with success, whether the store
\* rejects or overwrites the second create, when an object is stored at the
\* path.
C5_RacingUploadsBothSucceed ==
    \A r, s \in Slots :
        LET q == req[r]
            p == req[s]
            raced(x) == /\ Answered(x) /\ InUpload(x) /\ x.faults = 0
                        /\ x.loc.got = HttpError(404) /\ putsOf(x) # {}
        IN (/\ r # s /\ raced(q) /\ raced(p) /\ q.loc.path = p.loc.path
            /\ q.loc.path \in DOMAIN store) =>
              /\ q.resp.status = 200 /\ q.resp.body.success = TRUE
              /\ p.resp.status = 200 /\ p.resp.body.success = TRUE

-----------------------------------------------------------------------------
(* Claims about every handler                                              *)

\* C6: a request one of whose store calls failed with anything other than a
\* 404 is answered with a 5xx status (upload, lookup, delete, list), and a
\* batch reports as results only the items whose put succeeded.
C6_StoreFailureSurfaced ==
    \A r \in Slots :
        LET q == req[r]
        IN (q.pc = "done" /\ failedCallsOf(q) # {}) =>
              IF q.kind = "batch"
              THEN Len(q.resp.body.results)
                      = Cardinality({k \in putsOf(q) : q.calls[k].res = "ok"})
              ELSE q.resp.status >= 500

\* {cdnBase}/{owner}/{repo}@{branch}/{category}/{sanitizedFilename}
PublicUrl(category, fileName) ==
    configObject.cdnApiUrl \o "/" \o configObject.githubUser \o "/"
    \o configObject.githubRepo \o "@" \o configObject.repoBranch \o "/" \o category
    \o "/" \o Join(fileName)

\* an object of a response that reports a rawUrl with a folder and a name
WellFormedUrl(x) ==
    /\ x.rawUrl = PublicUrl(x.folder, x.fileName)
    /\ x.folder \in Range(FolderOrder)
    /\ sanitize(x.fileName) = x.fileName

\* C10: every rawUrl of a response (upload of a new or an existing object,
\* batch result, lookup, list entry) is
\* {cdnApiUrl}/{githubUser}/{githubRepo}@{repoBranch}/{folder}/{fileName} for
\* the folder and the sanitized file name reported with it.
C10_RawUrlFormat ==
    \A r \in Slots :
        LET q == req[r]
            body == q.resp.body
        IN (q.pc = "done" /\ q.resp.status = 200) =>
              CASE q.kind = "upload" -> WellFormedUrl(body)
                [] q.kind = "batch" ->
                      \A k \in 1..Len(body.results) : WellFormedUrl(body.results[k])
                [] q.kind = "lookup" -> WellFormedUrl(body.file)
                [] q.kind = "list" ->
                      \A k \in 1..Len(body.files) : WellFormedUrl(body.files[k])
                [] OTHER -> TRUE

\* a list response carries the URL of an uploaded object
C10_Witness ==
    \E r \in Slots :
        /\ req[r].kind = "list" /\ req[r].pc = "done"
        /\ Len(req[r].resp.body.files) = 1
        /\ req[r].resp.body.files[1].rawUrl
              = "https://cdn.jsdelivr.net/gh/mauricegift/ghbcdn@main/images/abc_x-y"

-----------------------------------------------------------------------------
(* Claims about the batch upload                                           *)

DoneBatch(q) == q.kind = "batch" /\ q.pc = "done" /\ q.resp.status = 200
allowedAt(q, i) == includes(ALLOWED_MIME_TYPES, q.input.files[i].mimetype)
\* the number of admitted items among the first i: the position of item i's
\* put in the call log
rankOf(q, i) == Cardinality({j \in 1..i : allowedAt(q, j)})
writtenAt(q, i) ==
    allowedAt(q, i) /\ rankOf(q, i) <= Len(q.calls) /\ q.calls[rankOf(q, i)].res = "ok"

\* the original names, in input order, of the items from i on that were
\* written (w = TRUE) or were not (w = FALSE)
RECURSIVE namesFrom(_, _, _)
namesFrom(q, i, w) ==
    IF i > Len(q.input.files) THEN <<>>
    ELSE (IF writtenAt(q, i) = w THEN <<q.input.files[i].originalname>> ELSE <<>>)
         \o namesFrom(q, i + 1, w)

\* C11: a batch answers with every item in exactly one of results (its put
\* succeeded) and errors (type not allowed, or put failed), each in input
\* order and under its original name, successfulUploads + failedUploads =
\* totalFiles, and the objects of results are stored.
C11_BatchPartialFailure ==
    \A r \in Slots :
        LET q == req[r]
            body == q.resp.body
        IN DoneBatch(q) =>
              /\ body.totalFiles = Len(q.input.files)
              /\ body.successfulUploads = Len(body.results)
              /\ body.failedUploads = Len(body.errors)
              /\ body.successfulUploads + body.failedUploads = body.totalFiles
              /\ [k \in 1..Len(body.results) |-> body.results[k].originalName]
                    = namesFrom(q, 1, TRUE)
              /\ [k \in 1..Len(body.errors) |-> body.errors[k].fileName]
                    = namesFrom(q, 1, FALSE)
              /\ \A k \in 1..Len(body.results) :
                    Path(body.results[k].folder, body.results[k].fileName) \in DOMAIN store

\* three files of which the second has a type that is not allowed
C11_Witness ==
    \E r \in Slots :
        /\ DoneBatch(req[r])
        /\ req[r].input.files = <<HyphenFile, FlashFile, HyphenFile>>
        /\ req[r].resp.body.successfulUploads = 2
        /\ req[r].resp.body.failedUploads = 1
        /\ req[r].resp.body.errors[1].fileName = FlashFile.originalname

\* C12: a batch request issues only puts, one for each admitted item it has
\* come to and none for an item whose type is not allowed: no get, and at
\* most as many puts as it has files.
C12_BatchAlwaysWrites ==
    \A r \in Slots :
        LET q == req[r]
            n == Len(q.input.files)
        IN q.kind = "batch" =>
              /\ \A k \in 1..Len(q.calls) : q.calls[k].op = "put"
              /\ Len(q.calls) <= n
              /\ (q.pc = "bput" =>
                    allowedAt(q, q.loc.i) /\ Len(q.calls) = rankOf(q, q.loc.i))
              /\ (q.pc = "done" => Len(q.calls) = rankOf(q, n))

\* a batch of a disallowed and an admitted file has been answered after one put
C12_Witness ==
    \E r \in Slots :
        /\ DoneBatch(req[r])
        /\ req[r].input.files = <<FlashFile, HyphenFile>>
        /\ Len(req[r].calls) = 1 /\ req[r].calls[1].op = "put"
        /\ req[r].resp.body.successfulUploads = 1

-----------------------------------------------------------------------------
(* Claims about lookup, list and delete                                    *)

\* the stored names of a folder that start with fileId, in listing order
matchesIn(folder, fileId) ==
    SelectSeq(SortNames({p.name : p \in {x \in DOMAIN store : x.dir = folder}}),
              LAMBDA name : startsWith(name, fileId))

\* positions in FolderOrder of the categories holding a match
foldersWithMatch(fileId) ==
    {i \in 1..Len(FolderOrder) : matchesIn(FolderOrder[i], fileId) # <<>>}

\* C13: a lookup whose listings the store answers responds 404
\* FILE_NOT_FOUND exactly when no stored entry of any category has a name
\* starting with the id; otherwise it answers with the first match, in
\* listing order, of the first category (images, videos, audio, documents,
\* archives, code) that holds one.
C13_LookupFirstMatch ==
    \A r \in Slots :
        LET q == req[r]
            hits == foldersWithMatch(q.input.fileId)
            first == FolderOrder[Min(hits)]
        IN (q.kind = "lookup" /\ q.pc = "done" /\ q.faults = 0) =>
              IF hits = {}
              THEN q.resp.status = 404 /\ q.resp.body.code = "FILE_NOT_FOUND"
              ELSE /\ q.resp.status = 200
                   /\ q.resp.body.file.folder = first
                   /\ q.resp.body.file.fileName = Head(matchesIn(first, q.input.fileId))

\* of two entries of images that start with the id, the first one listed
\* has been returned
C13_Witness ==
    \E r \in Slots :
        /\ req[r].kind = "lookup" /\ req[r].pc = "done" /\ req[r].faults = 0
        /\ Len(matchesIn("images", req[r].input.fileId)) = 2
        /\ req[r].resp.status = 200
        /\ req[r].resp.body.file.fileName = <<"a", "b", "c", "_", "x", "-", "y">>

\* the (folder, name) pairs of a folder's listing
listingOf(folder) ==
    LET names == SortNames({p.name : p \in {x \in DOMAIN store : x.dir = folder}})
    IN [k \in 1..Len(names) |-> <<folder, names[k]>>]

\* the listings the request got from the store, concatenated in scan order
RECURSIVE scannedFrom(_, _)
scannedFrom(q, k) ==
    IF k > Len(q.calls) THEN <<>>
    ELSE (IF q.calls[k].res = "ok" THEN listingOf(q.calls[k].path.dir) ELSE <<>>)
         \o scannedFrom(q, k + 1)

\* the least number of pages of limit entries that hold total entries
pagesFor(total, limit) ==
    CHOOSE m \in 0..total : m * limit >= total /\ \A j \in 0..total : j * limit >= total => m <= j

\* C14: a list request with page >= 1 and limit >= 1 answers with the entries
\* at offsets (page-1)*limit .. page*limit-1, as far as they exist, of the
\* concatenated listings of the scanned categories, totalFiles = their number
\* and totalPages = ceil(totalFiles / limit).
C14_ListPagination ==
    \A r \in Slots :
        LET q == req[r]
            body == q.resp.body
            all == scannedFrom(q, 1)
            offset == (q.input.page - 1) * q.input.limit
            left == Len(all) - offset
            count == IF left <= 0 THEN 0
                     ELSE IF left < q.input.limit THEN left ELSE q.input.limit
        IN (q.kind = "list" /\ q.pc = "done") =>
              /\ q.resp.status = 200
              /\ body.totalFiles = Len(all)
              /\ body.totalPages = pagesFor(Len(all), q.input.limit)
              /\ [k \in 1..Len(body.files) |->
                      <<body.files[k].folder, body.files[k].fileName>>]
                    = [k \in 1..count |-> all[offset + k]]

\* limit=2, page=2 over five stored objects: the objects at offsets 2 and 3 of
\* images (2), videos (1), documents (2), and three pages
C14_Witness ==
    \E r \in Slots :
        LET q == req[r]
        IN /\ q.kind = "list" /\ q.pc = "done" /\ q.faults = 0
           /\ Cardinality(DOMAIN store) = 5
           /\ q.input = [folder |-> "", limit |-> 2, page |-> 2]
           /\ q.resp.body.totalFiles = 5 /\ q.resp.body.totalPages = 3
           /\ Len(q.resp.body.files) = 2
           /\ q.resp.body.files[1].folder = "videos"
           /\ q.resp.body.files[1].fileName = StoredName1
           /\ q.resp.body.files[2].folder = "documents"
           /\ q.resp.body.files[2].fileName = StoredName1

\* the request names a path at which nothing is stored, or only a fileId that
\* no stored name starts with
namesNothing(input) ==
    IF input.filename # NoData THEN input.filename \notin DOMAIN store
    ELSE input.fileId # <<>> /\ foldersWithMatch(input.fileId) = {}

\* C15: a delete request for a path at which no object is stored, or for a
\* fileId no stored entry matches, is answered 404 FILE_NOT_FOUND, and the
\* store is as before (the store answering the request's calls).
C15_DeleteMissingIs404 ==
    [][\A r \in Slots :
          (/\ req[r].kind = "delete" /\ req[r].pc \notin {"idle", "done"}
           /\ req'[r].pc = "done" /\ req'[r].faults = 0
           /\ namesNothing(req[r].input)) =>
             /\ req'[r].resp.status = 404
             /\ req'[r].resp.body.code = "FILE_NOT_FOUND"
             /\ store' = store]_vars

\* a delete by name of a path that holds nothing has been answered
C15_Witness ==
    \E r \in Slots :
        /\ req[r].kind = "delete" /\ req[r].pc = "done" /\ req[r].faults = 0
        /\ req[r].input.filename \in DeleteFilenames
        /\ req[r].input.filename \notin DOMAIN store
        /\ req[r].calls # <<>> /\ req[r].calls[1].res = "404"
        /\ req[r].resp.status = 404

-----------------------------------------------------------------------------
(* Further claims about the single-file upload                             *)

\* C16: every success response of an upload, for a new or an existing
\* object, has success, rawUrl, fileId, fileName, folder, fileSize, mimeType
\* and timestamp, and every failure response has success = false, error and
\* code.
C16_UploadResponseShape ==
    \A r \in Slots :
        LET q == req[r]
            fields == DOMAIN q.resp.body
        IN Answered(q) =>
              IF q.resp.status = 200
              THEN /\ {"success", "rawUrl", "fileId", "fileName", "folder", "fileSize",
                        "mimeType", "timestamp"} \subseteq fields
                   /\ q.resp.body.success = TRUE
              ELSE /\ {"success", "error", "code"} \subseteq fields
                   /\ q.resp.body.success = FALSE

\* C16 for the success response of an upload whose object already existed
C16_ExistingResponseShape ==
    \A r \in Slots :
        LET q == req[r]
        IN (Answered(q) /\ q.resp.status = 200) =>
              {"success", "rawUrl", "fileId", "fileName", "folder", "fileSize",
               "mimeType", "timestamp"} \subseteq DOMAIN q.resp.body

-----------------------------------------------------------------------------
(* Claims about the identifier generator                                   *)

\* the 62-character alphabet A-Z, a-z, 0-9
Alphabet62 ==
    {"A", "B", "C", "D", "E", "F", "G", "H", "I", "J", "K", "L", "M",
     "N", "O", "P", "Q", "R", "S", "T", "U", "V", "W", "X", "Y", "Z"}
    \cup {"a", "b", "c", "d", "e", "f", "g", "h", "i", "j", "k", "l", "m",
          "n", "o", "p", "q", "r", "s", "t", "u", "v", "w", "x", "y", "z"}
    \cup {"0", "1", "2", "3", "4", "5", "6", "7", "8", "9"}

\* C17: makeId with a length hint n >= 0 returns exactly n characters,
\* without a hint it returns 3 to 6 characters, and every character it
\* returns is one of the 62 of the alphabet.
C17_MakeIdLength ==
    idOut # NotRunSeq =>
        /\ idArgs # <<>> => Len(idOut) = idArgs[1]
        /\ idArgs = <<>> => Len(idOut) \in 3..6
        /\ Range(idOut) \subseteq Alphabet62

\* C17 for the hints n >= 1 and for the call without a hint
C17_MakeIdPositiveHint ==
    (idOut # NotRunSeq /\ idArgs # <<0>>) =>
        /\ idArgs # <<>> => Len(idOut) = idArgs[1]
        /\ idArgs = <<>> => Len(idOut) \in 3..6
        /\ Range(idOut) \subseteq Alphabet62
        /\ Cardinality(Alphabet62) = 62

-----------------------------------------------------------------------------
(* Claims about the configuration                                          *)

\* the content types of FOLDER_MAP that validateFile does not admit
notAdmitted ==
    UNION {Range(FOLDER_MAP[folder]) : folder \in DOMAIN FOLDER_MAP}
        \ Range(ALLOWED_MIME_TYPES)

\* C18: under each configuration module of the repository, every content
\* type in a list of FOLDER_MAP is in ALLOWED_MIME_TYPES.
C18_AllowListIsSuperset == notAdmitted = {}

\* C18 for the lists taken from the configuration (images, videos, audio,
\* documents) alone
C18_ConfiguredListsAdmitted ==
    \A folder \in {"images", "videos", "audio", "documents"} :
        Range(FOLDER_MAP[folder]) \subseteq Range(ALLOWED_MIME_TYPES)

\* C18 under the module that defines the type lists: what is not admitted
C18_Part003NotAdmitted ==
    config = "part_003" => notAdmitted = {}

-----------------------------------------------------------------------------
(* Claims about the calls of one upload request                            *)

\* the calls of q before call k that checked the path of call k
checksBefore(q, k) ==
    {j \in 1..(k - 1) : q.calls[j].op = "get" /\ q.calls[j].path = q.calls[k].path}

\* C19: an upload issues a put for a path only after its own existence check
\* of that path returned NotFound: never after a check that found an object,
\* and never without a check.
C19_PutOnlyAfterNotFound ==
    \A r \in Slots :
        LET q == req[r]
        IN q.kind = "upload" =>
              \A k \in putsOf(q) :
                  /\ checksBefore(q, k) # {}
                  /\ \A j \in checksBefore(q, k) : q.calls[j].res = "404"

\* C19 without its first part: a put is never issued unchecked, and never
\* after a check that found an object
C19_NoPutAfterFound ==
    \A r \in Slots :
        LET q == req[r]
        IN q.kind = "upload" =>
              \A k \in putsOf(q) :
                  /\ checksBefore(q, k) # {}
                  /\ \A j \in checksBefore(q, k) : q.calls[j].res # "ok"

-----------------------------------------------------------------------------
(* Claims about the course of one upload request                           *)

getsOf(q) == {k \in 1..Len(q.calls) : q.calls[k].op = "get"}

\* an upload in uploadToGitHub sent at most one response, exactly one once
\* it is over, and issued at most one get and at most one put
OneResponse ==
    \A r \in Slots :
        LET q == req[r]
        IN InUpload(q) =>
              /\ q.sent <= 1
              /\ q.pc = "done" <=> q.sent = 1
              /\ Cardinality(getsOf(q)) <= 1 /\ Cardinality(putsOf(q)) <= 1
              /\ Len(q.calls) <= 2

\* a step of a request that has responded leaves its call log alone (the
\* slot's next request starts with sent = 0)
QuietAfterResponse ==
    \A r \in Slots :
        (InUpload(req[r]) /\ req[r].sent >= 1 /\ req'[r].sent # 0) =>
            req'[r].calls = req[r].calls

\* an upload awaiting a call gets to its response
ReachesResponse ==
    \A r \in Slots :
        (InUpload(req[r]) /\ req[r].pc \in {"get", "put"})
            ~> (InUpload(req[r]) /\ req[r].pc = "done" /\ req[r].sent = 1)

\* C20: an upload that reached uploadToGitHub sends exactly one response,
\* issues no store call after it, and, every call returning, gets to that
\* response after at most one get and at most one put.
C20_UploadTerminal ==
    /\ []OneResponse
    /\ [][QuietAfterResponse]_vars
    /\ ReachesResponse

\* an upload responded after a get and a put, and one after a get alone
C20_Witness ==
    /\ \E r \in Slots :
          /\ InUpload(req[r]) /\ req[r].pc = "done" /\ req[r].sent = 1
          /\ Cardinality(getsOf(req[r])) = 1 /\ Cardinality(putsOf(req[r])) = 1
    /\ \E r \in Slots :
          /\ InUpload(req[r]) /\ req[r].pc = "done" /\ req[r].sent = 1
          /\ req[r].resp.status = 200 /\ putsOf(req[r]) = {}

-----------------------------------------------------------------------------
(* Claims about uploads after deletes                                      *)

\* C21: the service keeps no record of stored objects: an upload of a
\* (customId, name) whose earlier upload succeeded and whose object was then
\* deleted finds NotFound at the path, issues a put, and the object is at
\* the path again (the store answering its calls).
C21_ReuploadAfterDelete ==
    \A r \in Slots :
        LET q == req[r]
        IN (Answered(q) /\ q.faults = 0 /\ q.gone # {}) =>
              /\ q.calls[1].op = "get" /\ q.calls[1].res = "404"
              /\ Cardinality(putsOf(q)) = 1
              /\ q.resp.status = 200 /\ q.resp.body.success = TRUE
              /\ q.loc.path \in DOMAIN store
              /\ store[q.loc.path].content = Base64(q.input.file.buffer)
              /\ \A u \in q.gone : q.resp.body.rawUrl = u.rawUrl

\* an object uploaded, deleted and uploaded again
C21_Witness ==
    \E r \in Slots :
        /\ Answered(req[r]) /\ req[r].faults = 0 /\ req[r].gone # {}
        /\ req[r].resp.status = 200 /\ req[r].loc.path \in DOMAIN store
        /\ \E u \in uploaded : u.path = req[r].loc.path

-----------------------------------------------------------------------------
(* Claims about racing deletes                                             *)

\* the object whose version token delete request q read is no longer there
removedSince(q) == q.loc.targetFile \notin DOMAIN store
\* another object is at the path now
replacedSince(q) ==
    q.loc.targetFile \in DOMAIN store /\ store[q.loc.targetFile].sha # q.loc.sha

\* the delete call of request r returns what the store answers
DeleteCallAnswered(r) ==
    /\ req[r].kind = "delete" /\ req[r].pc = "ddel"
    /\ req'[r].pc = "done" /\ req'[r].faults = req[r].faults

\* C22: when the object was removed or replaced between a delete request's
\* read of its version token and its delete call, the request is answered
\* 404 FILE_NOT_FOUND and the store is left as it was.
C22_StaleDeleteIs404 ==
    [][\A r \in Slots :
          (DeleteCallAnswered(r) /\ (removedSince(req[r]) \/ replacedSince(req[r]))) =>
              /\ req'[r].resp.status = 404
              /\ req'[r].resp.body.code = "FILE_NOT_FOUND"
              /\ store' = store]_vars

\* C22 for an object that was removed
C22_RemovedIs404 ==
    [][\A r \in Slots :
          (DeleteCallAnswered(r) /\ removedSince(req[r])) =>
              /\ req'[r].resp.status = 404
              /\ req'[r].resp.body.code = "FILE_NOT_FOUND"
              /\ store' = store]_vars

\* C22, the store's part: a delete call for a removed or replaced object
\* fails and leaves the store as it was
C22_StaleDeleteFails ==
    [][\A r \in Slots :
          (DeleteCallAnswered(r) /\ (removedSince(req[r]) \/ replacedSince(req[r]))) =>
              /\ req'[r].resp.status >= 400
              /\ req'[r].resp.body.success = FALSE
              /\ store' = store]_vars

\* C22, the consequence: of the delete requests in flight that read the token
\* of the first object, at most one is answered with success
C22_AtMostOneSuccess ==
    Cardinality({r \in Slots :
                    /\ req[r].kind = "delete" /\ req[r].pc = "done"
                    /\ req[r].resp.status = 200
                    /\ req[r].loc.sha = Sha(Base64(PngFile.buffer))}) <= 1

-----------------------------------------------------------------------------
(* Claims about the legacy identifier generator                            *)

\* C23: the legacy makeId returns an identifier of 2 to 4 characters, as its
\* comment says.
C23_LegacyLength == idOut # NotRunSeq => Len(idOut) \in 2..4

\* C23 with the range the expression gives
C23_LegacyLengthTwoToFive ==
    idOut # NotRunSeq => (Len(idOut) \in 2..5 /\ Range(idOut) \subseteq Alphabet62)

-----------------------------------------------------------------------------
(* Claims about what an answered upload left in the store                  *)

\* the object at the path of the response of q holds the payload of q
holdsPayload(q) ==
    /\ q.loc.path \in DOMAIN store
    /\ store[q.loc.path].content = Base64(q.input.file.buffer)
    /\ q.resp.body.rawUrl = rawUrlOfPath(filePathOf(q.loc.path.dir, q.loc.path.name))

\* C24: when an upload is answered with success, the object at the path of
\* the returned rawUrl holds the payload of that request (on a store that
\* rejects a create on an occupied path, no object being deleted).
C24_SuccessHoldsPayload ==
    \A r \in Slots :
        LET q == req[r]
        IN (Answered(q) /\ q.resp.status = 200 /\ storeMode = "reject") => holdsPayload(q)

\* C24 for the uploads answered after their own put
C24_WrittenHoldsPayload ==
    \A r \in Slots :
        LET q == req[r]
        IN (Answered(q) /\ q.resp.status = 200 /\ storeMode = "reject" /\ putsOf(q) # {})
              => holdsPayload(q)

-----------------------------------------------------------------------------
(* Claims about lookup after upload                                        *)

\* the uploads with identifier f that were answered with success and whose
\* object has not been deleted
uploadsWithId(f) == {u \in uploaded : u.customId = f}

\* C25: a lookup by the fileId of an upload that was answered with success,
\* no delete in between and the store answering, returns the object of that
\* upload: its folder, its fileName and its rawUrl.
C25_LookupReturnsUpload ==
    \A r \in Slots :
        LET q == req[r]
        IN (q.kind = "lookup" /\ q.pc = "done" /\ q.faults = 0) =>
              \A u \in uploadsWithId(q.input.fileId) :
                  /\ q.resp.status = 200
                  /\ q.resp.body.file.folder = u.path.dir
                  /\ q.resp.body.file.fileName = u.path.name
                  /\ q.resp.body.file.rawUrl = u.rawUrl

\* C25 as far as it goes: such a lookup is answered with success and with an
\* object whose name begins with the fileId
C25_LookupReturnsSomeMatch ==
    \A r \in Slots :
        LET q == req[r]
        IN (q.kind = "lookup" /\ q.pc = "done" /\ q.faults = 0
            /\ uploadsWithId(q.input.fileId) # {}) =>
              /\ q.resp.status = 200
              /\ startsWith(q.resp.body.file.fileName, q.input.fileId)

-----------------------------------------------------------------------------
(* Claims about what a delete removes                                      *)

\* the delete call of request r returns
DeleteCallReturns(r) ==
    req[r].kind = "delete" /\ req[r].pc = "ddel" /\ req'[r].pc = "done"

removedBy == DOMAIN store \ DOMAIN store'
othersUnchanged == \A p \in DOMAIN store' : p \in DOMAIN store /\ store'[p] = store[p]

\* the calls of q that list a folder
listingsOf(q) == {k \in 1..Len(q.calls) : q.calls[k].path.name = <<>>}

\* C26: a delete by fileId alone removes only an object whose identifier,
\* the part of its name before the first '_', is that fileId, and leaves the
\* other objects as they were; with a filename, given with or without a
\* fileId, the filename is the target and no folder is listed.
C26_DeleteFrame ==
    [][\A r \in Slots :
          DeleteCallReturns(r) =>
              /\ othersUnchanged
              /\ IF req[r].input.filename = NoData
                 THEN \A p \in removedBy : beforeUnderscore(p.name) = req[r].input.fileId
                 ELSE /\ removedBy \subseteq {req[r].input.filename}
                      /\ listingsOf(req[r]) = {}]_vars

\* C26 with the match the search makes: the removed object's name begins
\* with the fileId
C26_DeleteFramePrefix ==
    [][\A r \in Slots :
          DeleteCallReturns(r) =>
              /\ othersUnchanged
              /\ Cardinality(removedBy) <= 1
              /\ IF req[r].input.filename = NoData
                 THEN \A p \in removedBy : startsWith(p.name, req[r].input.fileId)
                 ELSE /\ removedBy \subseteq {req[r].input.filename}
                      /\ listingsOf(req[r]) = {}]_vars

-----------------------------------------------------------------------------
(* Claims about the paths a delete reaches                                 *)

inCategoryFolder(path) == \E i \in 1..Len(FolderOrder) : path.dir = FolderOrder[i]

deleteCallsOf(q) == {k \in 1..Len(q.calls) : q.calls[k].op = "delete"}

\* C27: a delete request removes only objects in a category folder; for a
\* filename that names another path it issues no delete call and is
\* answered with a failure.
C27_DeleteOnlyInCategories ==
    /\ [](\A r \in Slots :
            (/\ req[r].kind = "delete" /\ req[r].input.filename # NoData
             /\ ~inCategoryFolder(req[r].input.filename)) =>
                /\ deleteCallsOf(req[r]) = {}
                /\ req[r].pc = "done" => req[r].resp.status >= 400)
    /\ [][\A r \in Slots :
            DeleteCallReturns(r) => \A p \in removedBy : inCategoryFolder(p)]_vars

-----------------------------------------------------------------------------
(* Claims about the fileId of a response                                   *)

\* fileId is a prefix key of fileName, and what list derives from the name
usableKey(fileId, fileName) ==
    /\ startsWith(fileName, fileId \o <<"_">>)
    /\ beforeUnderscore(fileName) = fileId

\* C28: in every success response of an upload fileName begins with fileId
\* and '_', and fileId is the fileId that list derives from the stored name,
\* for generated and for caller-supplied identifiers.
C28_FileIdIsPrefixKey ==
    \A r \in Slots :
        LET q == req[r]
        IN (Answered(q) /\ q.resp.status = 200) =>
              usableKey(q.resp.body.fileId, q.resp.body.fileName)

\* the characters the sanitizer keeps and the list handler does not split at
KeyChars ==
    Range(characters) \cup {"-", "."}

\* C28 for generated identifiers and for caller-supplied ones made of
\* letters, digits, '-' and '.'
C28_PlainFileIdIsPrefixKey ==
    \A r \in Slots :
        LET q == req[r]
        IN (/\ Answered(q) /\ q.resp.status = 200
            /\ Range(q.input.customId) \subseteq KeyChars) =>
              usableKey(q.resp.body.fileId, q.resp.body.fileName)

-----------------------------------------------------------------------------
(* Claims about overwriting                                                *)

\* C29: on a store that rejects a create on an occupied path, no step of an
\* upload, batch, lookup or list request changes or removes an object that
\* is in the repository.
C29_NeverOverwrites ==
    [][storeMode = "reject" =>
          \A p \in DOMAIN store : p \in DOMAIN store' /\ store'[p] = store[p]]_vars

\* an upload whose check found the path vacant had its put refused, the
\* path holding another payload by then, which is still there
C29_Witness ==
    /\ storeMode = "reject"
    /\ \E r \in Slots :
          LET q == req[r]
          IN /\ Answered(q) /\ InUpload(q)
             /\ q.loc.got = HttpError(404) /\ q.loc.put = HttpError(422)
             /\ q.loc.path \in DOMAIN store
             /\ store[q.loc.path].content # Base64(q.input.file.buffer)

-----------------------------------------------------------------------------
(* Claims about the folder of an admitted upload                           *)

\* the folders whose list comes from the configuration
ConfiguredFolders == {"images", "videos", "audio", "documents"}

\* folder is what the classifier returns for type t by a match with a
\* configured list: the first category whose list holds t
matchedFolder(t, folder) ==
    /\ MatchingFolders(t) # {}
    /\ folder = FolderOrder[Min(MatchingFolders(t))]
    /\ folder \in ConfiguredFolders

\* C30: for every single or batch upload that passed admission the
\* classifier returned a category by a match with a configured list, not
\* 'files' and not the default for no match; and every object of the
\* repository lies in a folder that lookup, delete by id and list scan.
C30_AdmittedIsMatched ==
    /\ \A r \in Slots :
          LET q == req[r]
          IN /\ InUpload(q) => matchedFolder(q.input.file.mimetype, q.loc.folder)
             /\ (q.kind = "batch" /\ q.pc = "done" /\ q.resp.status = 200) =>
                   \A k \in 1..Len(q.resp.body.results) :
                       matchedFolder(q.resp.body.results[k].mimeType,
                                     q.resp.body.results[k].folder)
    /\ \A p \in DOMAIN store : inCategoryFolder(p)

\* a text/plain upload, a type that a configured list and the literal code
\* list both hold, has been written to documents; a batch has written too
C30_Witness ==
    /\ \E r \in Slots :
          /\ Answered(req[r]) /\ req[r].resp.status = 200 /\ putsOf(req[r]) # {}
          /\ req[r].input.file.mimetype = "text/plain"
          /\ req[r].loc.folder = "documents"
    /\ \E p \in DOMAIN store : p.dir = "images"

\* C30 for every content type of the configuration modules, in any case, and
\* for absent and unknown types: what validateFile admits is matched
C30_EveryAdmittedTypeMatched ==
    (ctOut # NotRun /\ includes(ALLOWED_MIME_TYPES, ctIn)) => matchedFolder(ctIn, ctOut)

====
